---------------------------- MODULE Spec2Model ----------------------------
(***************************************************************************)
(* fiatconv: a command-line currency converter with a GOB-encoded,         *)
(* time-bounded key/value cache.                                           *)
(*                                                                         *)
(* Strings are modelled as tuples of one-character strings, so that        *)
(* len() and strings.ToUpper are computed.  A float64 is modelled as a     *)
(* sign and a magnitude in hundredths, [neg, h], which keeps IEEE's        *)
(* negative zero apart from zero.  A byte stream is modelled as a          *)
(* sequence of tokens: the GOB message of a map is a header token holding  *)
(* the element count, followed by one token per element.                   *)
(***************************************************************************)
EXTENDS Integers, Sequences, FiniteSets, TLC

VARIABLES
    \* ---- parseArguments on its own
    pargs,      \* the argument list handed to parseArguments
    pres,       \* what parseArguments returned for it
    \* ---- package cache on its own
    m,          \* Cache.m of the cache instance in use
    buf,        \* the byte stream the cache is saved to and loaded from
    saved,      \* the mapping Save wrote into buf, NoMap once buf is not Save's output
    cutoff,     \* the cutoff the instance in use was loaded with
    lastSet,    \* per key, the last Set on it in the instance in use
    last,       \* the last cache operation and what it returned
    \* ---- one run of fiatConv after another
    fs,         \* the file at cachePath: NoFile or its byte stream
    args,       \* app.args of the last run
    now,        \* timeNowFn() of the last run
    found,      \* ok of c.Get(k) in the last run
    rate,       \* rate at the end of the last run
    conv,       \* what app.convert returned in the last run, NotCalled if not called
    calls,      \* how many times app.convert was called in the last run
    fsOps,      \* the appFS calls of the last run, in order
    stdout,     \* app.stdout of the last run
    stderr,     \* app.stderr of the last run
    osStderr,   \* os.Stderr of the last run
    code,       \* fiatConv's return value, NotRun before the first run
    again,      \* the last run repeated the successful run before it
    \* ---- API.Convert on its own
    xin,        \* the call: api.base, from, to, and what the HTTP client gets
    xout        \* what Convert returned for it

parseVars == <<pargs, pres>>
cacheVars == <<m, buf, saved, cutoff, lastSet, last>>
appVars == <<fs, args, now, found, rate, conv, calls, fsOps, stdout, stderr,
             osStderr, code, again>>
exchVars == <<xin, xout>>
vars == <<parseVars, cacheVars, appVars, exchVars>>

-----------------------------------------------------------------------------
(* Bounds of the model *)

\* the longest argument list, program name included
MaxArgs == 5
\* expires and cutoff values of the cache package's runs are 0..MaxExpires
MaxExpires == 1
\* the clock readings of fiatConv's runs are Times[0..MaxTime]
MaxTime == 3

-----------------------------------------------------------------------------
(* Program constants *)

fiatNameLength == 3
\* time.Hour, in the seconds of Time.Unix()
cacheLifetime == 3600

-----------------------------------------------------------------------------
(* Strings *)

Lower == <<"a", "d", "s", "u", "x">>
Upper == <<"A", "D", "S", "U", "X">>
Digits == <<"0", "1", "2", "3", "4", "5", "6", "7", "8", "9">>

UpperChar(ch) ==
    IF \E i \in DOMAIN Lower : Lower[i] = ch
    THEN Upper[CHOOSE i \in DOMAIN Lower : Lower[i] = ch]
    ELSE ch

ToUpper(s) == [i \in DOMAIN s |-> UpperChar(s[i])]

IsDigit(ch) == \E i \in DOMAIN Digits : Digits[i] = ch
DigitVal(ch) == (CHOOSE i \in DOMAIN Digits : Digits[i] = ch) - 1

RECURSIVE DigitsVal(_)
DigitsVal(s) ==
    IF s = <<>> THEN 0
    ELSE 10 * DigitsVal(SubSeq(s, 1, Len(s) - 1)) + DigitVal(s[Len(s)])

RECURSIVE NatDigits(_)
NatDigits(n) ==
    IF n < 10 THEN <<Digits[n + 1]>>
    ELSE NatDigits(n \div 10) \o <<Digits[(n % 10) + 1]>>

-----------------------------------------------------------------------------
(* float64 *)

Float(neg, h) == [neg |-> neg, h |-> h]
FZero == Float(FALSE, 0)
\* Go's == on floats: -0 == 0
FEq(a, b) == a.h = b.h /\ (a.h = 0 \/ a.neg = b.neg)
\* exact when one factor is a whole number
FMul(a, b) == Float(a.neg # b.neg, (a.h * b.h) \div 100)

\* strconv.ParseFloat(s, 64) on strings over the signs, the digits and letters:
\* an optional sign and one or more digits
ParseFloatOk(s) ==
    LET body == IF s # <<>> /\ s[1] \in {"-", "+"} THEN Tail(s) ELSE s
    IN  body # <<>> /\ \A i \in DOMAIN body : IsDigit(body[i])

Nil == <<"nil">>
\* an error value; msg is its message, a sequence of strings
Err(msg) == <<"error", msg>>

ParseFloat(s) ==
    LET neg == s # <<>> /\ s[1] = "-"
        body == IF s # <<>> /\ s[1] \in {"-", "+"} THEN Tail(s) ELSE s
    IN  IF ParseFloatOk(s)
        THEN [val |-> Float(neg, 100 * DigitsVal(body)), err |-> Nil]
        ELSE [val |-> FZero,
              err |-> Err(<<"strconv.ParseFloat: parsing \"">> \o s
                            \o <<"\": invalid syntax">>)]

\* fmt's %.2f
Format2f(x) ==
    (IF x.neg THEN <<"-">> ELSE <<>>)
        \o NatDigits(x.h \div 100)
        \o <<".", Digits[((x.h \div 10) % 10) + 1], Digits[(x.h % 10) + 1]>>

-----------------------------------------------------------------------------
(* parseArguments *)

request(amount, from, to) == [amount |-> amount, from |-> from, to |-> to]
NoRequest == [amount |-> FZero, from |-> <<>>, to |-> <<>>]

MinArgs == 4

TooFew(a) == Len(a) < MinArgs

BadFiat(s) == Len(s) # fiatNameLength

FiatAsGiven(s) == s

Fiat(s) == ToUpper(s)

parseArguments(a) ==
    IF TooFew(a)
    THEN [req |-> NoRequest, err |-> Err(<<"too few arguments">>)]
    ELSE IF ParseFloat(a[2]).err # Nil
    THEN [req |-> NoRequest,
          err |-> Err(<<"Invalid amount: ">> \o ParseFloat(a[2]).err[2])]
    ELSE IF BadFiat(a[3])
    THEN [req |-> NoRequest, err |-> Err(<<"Invalid fiat: ">> \o a[3])]
    ELSE IF BadFiat(a[4])
    THEN [req |-> NoRequest, err |-> Err(<<"Invalid fiat: ">> \o a[4])]
    ELSE [req |-> request(ParseFloat(a[2]).val, Fiat(a[3]), Fiat(a[4])),
          err |-> Nil]

Usage == "Usage: fiatconv <amount> <from_fiat> <to_fiat> ..."

\* printUsage: Fprintln of the usage text
printUsage(w) == w \o <<Usage, "\n">>

-----------------------------------------------------------------------------
(* Values held in interface{} *)

\* a value and its dynamic type; val is a sign and a magnitude, in hundredths
\* for a float64 and in units for an int
FloatVal(f) == [type |-> "float64", val |-> f]
IntVal(i) == [type |-> "int", val |-> [neg |-> i < 0, h |-> IF i < 0 THEN -i ELSE i]]
NilVal == [type |-> "nil", val |-> [neg |-> FALSE, h |-> 0]]

\* the two codes in alphabetical order, whichever is the source
keyUnordered(from, to) ==
    IF \E i, j \in DOMAIN Upper : Upper[i] = from[1] /\ Upper[j] = to[1] /\ i > j
    THEN [From |-> to, To |-> from]
    ELSE [From |-> from, To |-> to]

\* struct{ From, To string }{req.from, req.to}
key(from, to) == [From |-> from, To |-> to]

-----------------------------------------------------------------------------
(* encoding/gob, as far as map[interface{}]item goes *)

item(expires, value) == [Expires |-> expires, Value |-> value]

EmptyMap == <<>>

Hdr(n) == [tag |-> "map", n |-> n]
Elem(k, it) == [tag |-> "elem", key |-> k, item |-> it]
\* an element that does not decode: damaged bytes, or a value whose type name
\* is not registered with gob in the reading program
BadElem == [tag |-> "bad"]
\* bytes that are no GOB message of a map
Junk == [tag |-> "junk"]

\* the orders in which a range over a Go map may visit its keys
Orders(S) ==
    {o \in [1..Cardinality(S) -> S] :
        \A i, j \in 1..Cardinality(S) : i # j => o[i] # o[j]}

\* Encoder.Encode(c.m): the header, then the elements in the map's iteration order
Encode(mm, order) ==
    <<Hdr(Len(order))>> \o [i \in 1..Len(order) |-> Elem(order[i], mm[order[i]])]

MapSet(mm, k, it) == [x \in DOMAIN mm \cup {k} |-> IF x = k THEN it ELSE mm[x]]

\* decodeMap: the elements are put into the destination map one by one, and an
\* element that does not decode ends the decoding with the map as filled so far
RECURSIVE DecodeElems(_, _, _, _)
DecodeElems(toks, i, n, acc) ==
    IF i > n THEN [m |-> acc, err |-> Nil]
    ELSE IF toks[i].tag # "elem" THEN [m |-> acc, err |-> Err(<<"gob: bad element">>)]
    ELSE DecodeElems(toks, i + 1, n, MapSet(acc, toks[i].key, toks[i].item))

\* Decoder.Decode(&c.m) into the map dst. The whole message is read before any
\* of it is decoded, so a message cut short leaves dst untouched.
Decode(r, dst) ==
    IF r = <<>> THEN [m |-> dst, err |-> Err(<<"EOF">>)]
    ELSE IF r[1].tag # "map" THEN [m |-> dst, err |-> Err(<<"gob: bad data">>)]
    ELSE IF Len(r) - 1 < r[1].n THEN [m |-> dst, err |-> Err(<<"unexpected EOF">>)]
    ELSE DecodeElems(Tail(r), 1, r[1].n, dst)

-----------------------------------------------------------------------------
(* package cache *)

ExpiredAtCutoff(v, c) == v.Expires <= c

Expired(v, c) == v.Expires < c

Purge(mm, c) == [k \in {x \in DOMAIN mm : ~Expired(mm[x], c)} |-> mm[k]]

Load(r, c) ==
    LET d == Decode(r, EmptyMap)
    IN  IF d.err # Nil THEN d.m ELSE Purge(d.m, c)

\* the entries whose expires is 0 are left out of what is written
SaveLeavingOutOld(mm, order, room) ==
    LET out == Encode(mm, SelectSeq(order, LAMBDA k : mm[k].Expires > 0))
    IN  IF room >= Len(out)
        THEN [written |-> out, err |-> Nil]
        ELSE [written |-> SubSeq(out, 1, room), err |-> Err(<<"write failed">>)]

\* Save to a writer that takes room tokens before it fails
Save(mm, order, room) ==
    LET out == Encode(mm, order)
    IN  IF room >= Len(out)
        THEN [written |-> out, err |-> Nil]
        ELSE [written |-> SubSeq(out, 1, room), err |-> Err(<<"write failed">>)]

SetIfAbsent(mm, k, value, expires) ==
    IF k \in DOMAIN mm THEN mm ELSE MapSet(mm, k, item(expires, value))

Set(mm, k, value, expires) == MapSet(mm, k, item(expires, value))

\* a key that is not in the map is found all the same, with a nil value
GetAlwaysFound(mm, k) ==
    IF k \in DOMAIN mm
    THEN [v |-> mm[k].Value, ok |-> TRUE]
    ELSE [v |-> NilVal, ok |-> TRUE]

Get(mm, k) ==
    IF k \in DOMAIN mm
    THEN [v |-> mm[k].Value, ok |-> TRUE]
    ELSE [v |-> NilVal, ok |-> FALSE]

-----------------------------------------------------------------------------
(* package exchange *)

\* a JSON value of a response body, as far as decoding into the two structs
\* goes: a member that is absent or null, a string, an object of numbers, or a
\* value of another type
JAbsent == [kind |-> "absent", str |-> <<>>, obj |-> <<>>]
JString(str) == [kind |-> "string", str |-> str, obj |-> <<>>]
JObject(obj) == [kind |-> "object", str |-> <<>>, obj |-> obj]
JNumber == [kind |-> "number", str |-> <<>>, obj |-> <<>>]

\* a body that is no JSON value, the empty body being one
NotJSON == [valid |-> FALSE, rates |-> JAbsent, base |-> JAbsent, error |-> JAbsent]
\* a body that is a JSON object with these members; other members are ignored
Body(rates, base, error) ==
    [valid |-> TRUE, rates |-> rates, base |-> base, error |-> error]

\* encoding/json into a string field: absent or null leaves it empty
StringField(j) ==
    IF j.kind = "absent" THEN [s |-> <<>>, err |-> Nil]
    ELSE IF j.kind = "string" THEN [s |-> j.str, err |-> Nil]
    ELSE [s |-> <<>>, err |-> Err(<<"json: cannot unmarshal ", j.kind,
                                     " into Go struct field of type string">>)]

\* encoding/json into a map[string]float64 field: absent or null leaves it nil
MapField(j) ==
    IF j.kind = "absent" THEN [m |-> EmptyMap, err |-> Nil]
    ELSE IF j.kind = "object" THEN [m |-> j.obj, err |-> Nil]
    ELSE [m |-> EmptyMap, err |-> Err(<<"json: cannot unmarshal ", j.kind,
                                        " into Go struct field of type map">>)]

\* url.Parse on the bases in use: ":" has no scheme, a trailing slash is a path
UrlParse(base) ==
    IF base = ":"
    THEN [host |-> "", err |-> Err(<<"parse \":\": missing protocol scheme">>)]
    ELSE IF base = "https://example.com/"
    THEN [host |-> "https://example.com", err |-> Nil]
    ELSE [host |-> base, err |-> Nil]

makeURL(base, from, to) ==
    IF UrlParse(base).err # Nil
    THEN [url |-> <<>>, err |-> UrlParse(base).err]
    ELSE [url |-> <<UrlParse(base).host, "/latest", "?", "base=">> \o from
                    \o <<"&", "symbols=">> \o to,
          err |-> Nil]

\* the base of the response is not compared with the requested one
decodeRateAnyBase(body, from, to) ==
    IF ~body.valid
    THEN [rate |-> FZero, err |-> Err(<<"invalid character">>)]
    ELSE IF MapField(body.rates).err # Nil
    THEN [rate |-> FZero, err |-> MapField(body.rates).err]
    ELSE IF StringField(body.base).err # Nil
    THEN [rate |-> FZero, err |-> StringField(body.base).err]
    ELSE IF to \in DOMAIN MapField(body.rates).m
    THEN [rate |-> MapField(body.rates).m[to], err |-> Nil]
    ELSE [rate |-> FZero, err |-> Err(<<"target code not found in response">>)]

decodeRate(body, from, to) ==
    IF ~body.valid
    THEN [rate |-> FZero, err |-> Err(<<"invalid character">>)]
    ELSE IF MapField(body.rates).err # Nil
    THEN [rate |-> FZero, err |-> MapField(body.rates).err]
    ELSE IF StringField(body.base).err # Nil
    THEN [rate |-> FZero, err |-> StringField(body.base).err]
    ELSE IF StringField(body.base).s # from
    THEN [rate |-> FZero,
          err |-> Err(<<"unexpected base in response: ">>
                        \o StringField(body.base).s)]
    ELSE IF to \in DOMAIN MapField(body.rates).m
    THEN [rate |-> MapField(body.rates).m[to], err |-> Nil]
    ELSE [rate |-> FZero, err |-> Err(<<"target code not found in response">>)]

StatusOK == 200

\* what api.client.Get returns: an error, or a response
GetFailed == [ok |-> FALSE, status |-> 0, body |-> NotJSON]
Response(status, body) == [ok |-> TRUE, status |-> status, body |-> body]

\* the error of a response whose status is not 200
StatusError(resp) ==
    IF /\ resp.body.valid
       /\ StringField(resp.body.error).err = Nil
       /\ Len(StringField(resp.body.error).s) > 0
    THEN Err(StringField(resp.body.error).s)
    ELSE Err(<<"unexpected HTTP status code: ">> \o NatDigits(resp.status))

Convert(base, from, to, got) ==
    IF makeURL(base, from, to).err # Nil
    THEN [rate |-> FZero, err |-> makeURL(base, from, to).err]
    ELSE IF ~got.ok
    THEN [rate |-> FZero, err |-> Err(<<"Get: connection refused">>)]
    ELSE IF got.status # StatusOK
    THEN [rate |-> FZero, err |-> StatusError(got)]
    ELSE decodeRate(got.body, from, to)

-----------------------------------------------------------------------------
(* Inputs *)

USD == <<"U", "S", "D">>
AUD == <<"A", "U", "D">>

\* clock readings, in seconds: 0, 1, 3600, 3601, 7200, ...
Time(i) == (i \div 2) * cacheLifetime + (i % 2)
Times == {Time(i) : i \in 0..MaxTime}

Rate2 == Float(FALSE, 200)

CacheKeys == {key(USD, AUD), key(AUD, USD)}
CacheValues == {FloatVal(Rate2), IntVal(7)}
Stamps == 0..MaxExpires

NoSaved == [ok |-> FALSE, m |-> EmptyMap]
\* the file at cachePath: whether it exists, what it holds, and whether it is the
\* discard location /dev/null, which opens, reads as empty and keeps nothing
NoFile == [exists |-> FALSE, data |-> <<>>, discard |-> FALSE]
File(data) == [exists |-> TRUE, data |-> data, discard |-> FALSE]
DevNull == [exists |-> TRUE, data |-> <<>>, discard |-> TRUE]

\* what a stream written by Save may have become when it is read back
Damaged(b) ==
    {<<>>, <<Junk>>}
        \cup {SubSeq(b, 1, j) : j \in 1..(Len(b) - 1)}
        \cup {[b EXCEPT ![i] = BadElem] : i \in 2..Len(b)}

-----------------------------------------------------------------------------
(* The variables a specification leaves alone *)

ParseIdle == pargs = <<>> /\ pres = [done |-> FALSE, ret |-> parseArguments(<<>>)]

CacheIdle ==
    /\ m = EmptyMap
    /\ buf = <<>>
    /\ saved = NoSaved
    /\ cutoff = 0
    /\ lastSet = EmptyMap
    /\ last = [op |-> "none", key |-> Nil, got |-> Get(EmptyMap, Nil), err |-> Nil]

-----------------------------------------------------------------------------
(* package cache on its own: one stream, loaded, changed and saved again *)

\* err of Load, which Load does not return
LoadErr(r) == Decode(r, EmptyMap).err

CacheLoad(c) ==
    /\ m' = Load(buf, c)
    /\ cutoff' = c
    /\ lastSet' = EmptyMap
    /\ last' = [op |-> "Load", key |-> Nil, got |-> Get(EmptyMap, Nil),
                err |-> LoadErr(buf)]
    /\ UNCHANGED <<buf, saved, parseVars, appVars, exchVars>>

CacheSet(k, v, e) ==
    /\ m' = Set(m, k, v, e)
    /\ lastSet' = MapSet(lastSet, k,
            [v |-> v, e |-> e, n |-> IF k \in DOMAIN lastSet THEN 2 ELSE 1])
    /\ last' = [op |-> "Set", key |-> k, got |-> Get(EmptyMap, Nil), err |-> Nil]
    /\ UNCHANGED <<buf, saved, cutoff, parseVars, appVars, exchVars>>

CacheGet(k) ==
    /\ last' = [op |-> "Get", key |-> k, got |-> Get(m, k), err |-> Nil]
    /\ UNCHANGED <<m, buf, saved, cutoff, lastSet, parseVars, appVars, exchVars>>

\* Save into a bytes.Buffer, which takes everything
CacheSave ==
    \E o \in Orders(DOMAIN m) :
        LET s == Save(m, o, Len(o) + 1)
        IN  /\ buf' = s.written
            /\ saved' = [ok |-> TRUE, m |-> m]
            /\ last' = [op |-> "Save", key |-> Nil, got |-> Get(EmptyMap, Nil),
                        err |-> s.err]
            /\ UNCHANGED <<m, cutoff, lastSet, parseVars, appVars, exchVars>>

\* the stream is damaged between a Save and the next Load
CacheDamage ==
    /\ saved.ok
    /\ buf' \in Damaged(buf)
    /\ saved' = NoSaved
    /\ last' = [op |-> "Damage", key |-> Nil, got |-> Get(EmptyMap, Nil),
                err |-> Nil]
    /\ UNCHANGED <<m, cutoff, lastSet, parseVars, appVars, exchVars>>

CacheInit ==
    /\ buf = <<>>
    /\ saved = NoSaved
    /\ cutoff \in Stamps
    /\ m = Load(buf, cutoff)
    /\ lastSet = EmptyMap
    /\ last = [op |-> "Load", key |-> Nil, got |-> Get(EmptyMap, Nil),
               err |-> LoadErr(buf)]

-----------------------------------------------------------------------------
(* fiatConv *)

NotCalled == [rate |-> FZero, err |-> Nil, called |-> FALSE]
Returned(r, e) == [rate |-> r, err |-> e, called |-> TRUE]
\* no clock reading: timeNowFn was not called
NoTime == 0 - 1
\* no return value: fiatConv has not run
NotRun == 0 - 1

\* loadCache: the file does not open when it is missing, or when openOk is not so
loadCache(file, c, openOk) ==
    IF ~(file.exists /\ openOk)
    THEN Load(<<>>, c)
    ELSE Load(file.data, c)

\* saveCache: what the file becomes and what is printed on os.Stderr
saveCache(c, file, order, createOk, room) ==
    IF ~createOk
    THEN [file |-> file, log |-> <<>>, ops |-> <<"CreateFailed">>]
    ELSE IF file.discard
    THEN [file |-> file, log |-> <<>>, ops |-> <<"Create", "Write">>]
    ELSE LET s == Save(c, order, room)
         IN  IF s.err # Nil
             THEN [file |-> File(s.written),
                   log |-> <<"failed to save to cache: ">> \o s.err[2] \o <<"\n">>,
                   ops |-> <<"Create", "WriteFailed">>]
             ELSE [file |-> File(s.written), log |-> <<>>,
                   ops |-> <<"Create", "Write">>]

\* v.(float64) of the cached value, rate staying 0 otherwise
CachedRate(g) ==
    IF g.ok /\ g.v.type = "float64" THEN g.v.val ELSE FZero

\* a rate of zero is a rate like any other
IsMissNever(r) == FALSE

\* if rate == 0
IsMiss(r) == FEq(r, FZero)

\* an entry stored exactly cacheLifetime ago is cut off
CutoffExclusive(t) == t - cacheLifetime + 1

\* now.Add(-cacheLifetime).Unix()
Cutoff(t) == t - cacheLifetime

StampAtExpiry(t) == t + cacheLifetime

\* now.Unix(), the expires of the entry a run stores
Stamp(t) == t

\* the run whose file-system calls were ops left its cache in the file
Persisted(file, ops) ==
    /\ ~file.discard
    /\ \A i \in DOMAIN ops : ops[i] \notin {"CreateFailed", "WriteFailed"}

\* the run repeats the run before it: that run succeeded and left its cache in the
\* file, the arguments and the clock reading are the same, and the file opens
Repeats(a, t, openOk) ==
    /\ code = 0
    /\ Persisted(fs, fsOps)
    /\ a = args
    /\ t = now
    /\ fs.exists /\ openOk

\* the cache file, app.convert and the two standard error streams after a run
Outcome(file, r, n, ops, out, errs, log, rc) ==
    /\ fs' = file
    /\ conv' = r
    /\ calls' = n
    /\ fsOps' = ops
    /\ stdout' = out
    /\ stderr' = errs
    /\ osStderr' = log
    /\ code' = rc

Prog == <<"p", "r", "o", "g">>

AppArgs ==
    { <<>>,
      <<Prog, <<"5">>, <<"u", "s", "d">>, <<"a", "u", "d">>>>,
      <<Prog, <<"-", "5">>, AUD, USD>>,
      <<Prog, <<"a", "1">>, USD, AUD>>,
      <<Prog, <<"5">>, <<"U", "S">>, AUD>> }

\* what app.convert may return
ConvResults ==
    { Returned(Rate2, Nil),
      Returned(FZero, Nil),
      Returned(FZero, Err(<<"simulated">>)) }

\* how many tokens the file takes: MaxRoom is enough for every cache of a run
MaxRoom == Cardinality(CacheKeys) + 1
Rooms == {0, MaxRoom}

\* the cache is loaded before the arguments are looked at
ParseFailureAfterLoad(p) ==
    /\ now' = NoTime
    /\ found' = FALSE
    /\ rate' = FZero
    /\ Outcome(fs, NotCalled, 0,
               IF fs.exists THEN <<"Open">> ELSE <<"OpenFailed">>, <<>>,
               printUsage(p.err[2] \o <<"\n\n">>), <<>>, 1)

\* the run ends at the parse error: lines 155-159
ParseFailure(p) ==
    /\ now' = NoTime
    /\ found' = FALSE
    /\ rate' = FZero
    /\ Outcome(fs, NotCalled, 0, <<>>, <<>>,
               printUsage(p.err[2] \o <<"\n\n">>), <<>>, 1)

\* the cached rate is looked up, and app.convert is called all the same
CacheHitConverting(req, cached, opened) ==
    /\ rate' = cached
    /\ Outcome(fs, Returned(cached, Nil), 1, opened,
               Format2f(FMul(cached, req.amount)) \o <<"\n">>, <<>>, <<>>, 0)

\* the entry that was used is stamped again and saved
CacheHitSaving(req, cached, opened) ==
    /\ rate' = cached
    /\ Outcome(File(<<Hdr(1), Elem(key(req.from, req.to),
                                   item(Stamp(now'), FloatVal(cached)))>>),
               NotCalled, 0, opened \o <<"Create", "Write">>,
               Format2f(FMul(cached, req.amount)) \o <<"\n">>, <<>>, <<>>, 0)

\* the cached rate is used: lines 171-175 and 188-189
CacheHit(req, cached, opened) ==
    /\ rate' = cached
    /\ Outcome(fs, NotCalled, 0, opened,
               Format2f(FMul(cached, req.amount)) \o <<"\n">>, <<>>, <<>>, 0)

\* the error is reported with the usage text, as a parse error is
ProviderFailureWithUsage(r, opened) ==
    /\ rate' = r.rate
    /\ Outcome(fs, r, 1, opened, <<>>,
               printUsage(r.err[2] \o <<"\n\n">>), <<>>, 1)

\* the cache file is created before the error is looked at
ProviderFailureAfterCreate(r, opened) ==
    /\ rate' = r.rate
    /\ Outcome(File(<<>>), r, 1, opened \o <<"Create">>, <<>>,
               r.err[2] \o <<"\n">>, <<>>, 1)

\* app.convert returned the error of r: lines 179-183
ProviderFailure(r, opened) ==
    /\ rate' = r.rate
    /\ Outcome(fs, r, 1, opened, <<>>, r.err[2] \o <<"\n">>, <<>>, 1)

\* the rate is printed, not the converted amount
CacheFillPrintingRate(req, r, s, opened) ==
    /\ rate' = r.rate
    /\ Outcome(s.file, r, 1, opened \o s.ops,
               Format2f(r.rate) \o <<"\n">>, <<>>, s.log, 0)

\* app.convert returned the rate of r, and saveCache returned s: lines 184-189
CacheFill(req, r, s, opened) ==
    /\ rate' = r.rate
    /\ Outcome(s.file, r, 1, opened \o s.ops,
               Format2f(FMul(r.rate, req.amount)) \o <<"\n">>, <<>>, s.log, 0)

\* One run of fiatConv. Its inputs: the arguments a, the clock reading t, whether
\* the file opens, what app.convert returns, whether the file can be created, how
\* much of the cache the file takes, and the order the map is written in.
fiatConv ==
    \E a \in AppArgs : \E p \in {parseArguments(a)} :
      /\ args' = a
      /\ IF p.err # Nil
         THEN /\ again' = FALSE
              /\ ParseFailure(p)
         ELSE \E t \in Times, openOk \in BOOLEAN :
              \E c \in {loadCache(fs, Cutoff(t), openOk)} :
              \E k \in {key(p.req.from, p.req.to)} :
              \E g \in {Get(c, k)} :
              \E opened \in {IF fs.exists /\ openOk
                             THEN <<"Open">> ELSE <<"OpenFailed">>} :
                /\ now' = t
                /\ found' = g.ok
                /\ again' = Repeats(a, t, openOk)
                /\ IF ~IsMiss(CachedRate(g))
                   THEN CacheHit(p.req, CachedRate(g), opened)
                   ELSE \E r \in ConvResults :
                        IF r.err # Nil
                        THEN ProviderFailure(r, opened)
                        ELSE \E c2 \in {Set(c, k, FloatVal(r.rate), Stamp(t))} :
                             \E createOk \in BOOLEAN :
                             \E room \in IF createOk THEN Rooms ELSE {MaxRoom} :
                             \E o \in Orders(DOMAIN c2) :
                             \E s \in {saveCache(c2, fs, o, createOk, room)} :
                               CacheFill(p.req, r, s, opened)
      /\ UNCHANGED <<parseVars, cacheVars, exchVars>>

\* the cache file before the first run
InitFiles ==
    { NoFile,
      DevNull,
      File(<<>>),
      File(<<Junk>>),
      File(<<Hdr(1), Elem(key(USD, AUD), item(Time(MaxTime), IntVal(7)))>>),
      File(<<Hdr(2), Elem(key(USD, AUD), item(0, FloatVal(Rate2))), BadElem>>) }

AppIdle ==
    /\ fs = NoFile
    /\ args = <<>>
    /\ now = NoTime
    /\ found = FALSE
    /\ rate = FZero
    /\ conv = NotCalled
    /\ calls = 0
    /\ fsOps = <<>>
    /\ stdout = <<>>
    /\ stderr = <<>>
    /\ osStderr = <<>>
    /\ code = NotRun
    /\ again = FALSE

AppInit ==
    /\ fs \in InitFiles
    /\ args = <<>>
    /\ now = NoTime
    /\ found = FALSE
    /\ rate = FZero
    /\ conv = NotCalled
    /\ calls = 0
    /\ fsOps = <<>>
    /\ stdout = <<>>
    /\ stderr = <<>>
    /\ osStderr = <<>>
    /\ code = NotRun
    /\ again = FALSE

-----------------------------------------------------------------------------
(* parseArguments on its own *)

Tokens ==
    { <<"5">>, <<"-", "5">>, <<"1", "2", "5">>, <<"a", "1">>,
      <<"u", "s", "d">>, <<"A", "u", "D">>, <<"U", "S">>, <<"u", "s", "d", "x">> }

TokenLists(n) == UNION {[1..i -> Tokens] : i \in 0..n}

\* the argument lists: none at all, or the program name and up to MaxArgs - 1 more
ArgLists == {<<>>} \cup {<<Prog>> \o rest : rest \in TokenLists(MaxArgs - 1)}

ParseInit ==
    /\ pargs \in ArgLists
    /\ pres = [done |-> FALSE, ret |-> parseArguments(<<>>)]

ParseCall ==
    /\ ~pres.done
    /\ pres' = [done |-> TRUE, ret |-> parseArguments(pargs)]
    /\ UNCHANGED <<pargs, cacheVars, appVars, exchVars>>

-----------------------------------------------------------------------------
(* API.Convert on its own *)

XYZ == <<"X", "Y", "Z">>
Rate15 == Float(FALSE, 150)
FeelingBad == <<"Feeling bad today">>

Bases == {"https://example.com", "https://example.com/", ":"}
Statuses == {StatusOK, 201, 400, 404}
RatesMembers ==
    { JAbsent, JString(<<"none">>),
      JObject([c \in {AUD} |-> Rate2]), JObject([c \in {AUD} |-> FZero]),
      JObject([c \in {XYZ} |-> Rate15]) }
BaseMembers == {JAbsent, JNumber, JString(USD), JString(XYZ)}
ErrorMembers == {JAbsent, JObject(EmptyMap), JString(<<>>), JString(FeelingBad)}
Bodies ==
    {NotJSON} \cup
        {Body(r, b, e) : r \in RatesMembers, b \in BaseMembers, e \in ErrorMembers}
Gets == {GetFailed} \cup {Response(st, body) : st \in Statuses, body \in Bodies}

NoResult == [done |-> FALSE, ret |-> [rate |-> FZero, err |-> Nil]]

ExchIdle ==
    /\ xin = [base |-> ":", from |-> <<>>, to |-> <<>>, got |-> GetFailed]
    /\ xout = NoResult

ExchInit ==
    /\ xin \in [base : Bases, from : {USD, XYZ}, to : {AUD, XYZ}, got : Gets]
    /\ xout = NoResult

ConvertCall ==
    /\ ~xout.done
    /\ xout' = [done |-> TRUE, ret |-> Convert(xin.base, xin.from, xin.to, xin.got)]
    /\ UNCHANGED <<xin, parseVars, cacheVars, appVars>>

-----------------------------------------------------------------------------
(* Specifications *)

\* runs of fiatConv, one after another, on one cache file
Init == ParseIdle /\ CacheIdle /\ AppInit /\ ExchIdle
Next == fiatConv
Spec == Init /\ [][Next]_vars

\* package cache on its own
InitCache == ParseIdle /\ CacheInit /\ AppIdle /\ ExchIdle
NextCache ==
    \/ \E c \in Stamps : CacheLoad(c)
    \/ \E k \in CacheKeys, v \in CacheValues, e \in Stamps : CacheSet(k, v, e)
    \/ \E k \in CacheKeys : CacheGet(k)
    \/ CacheSave
    \/ CacheDamage
SpecCache == InitCache /\ [][NextCache]_vars

\* parseArguments on its own
InitParse == ParseInit /\ CacheIdle /\ AppIdle /\ ExchIdle
NextParse == ParseCall
SpecParse == InitParse /\ [][NextParse]_vars

\* API.Convert on its own
InitExchange == ParseIdle /\ CacheIdle /\ AppIdle /\ ExchInit
NextExchange == ConvertCall
SpecExchange == InitExchange /\ [][NextExchange]_vars

-----------------------------------------------------------------------------
(* package cache: claims, checked under SpecCache *)

\* C1: when Load reads a stream that Save wrote, the cache it returns holds
\* exactly the entries of the saved mapping whose expires is at or above the
\* cutoff, the entry at the cutoff included, each with the value and the expires
\* it was saved with, and no entry whose expires is below the cutoff.
C1_LoadKeepsTheUnexpired ==
    (last.op = "Load" /\ saved.ok) =>
        /\ DOMAIN m = {k \in DOMAIN saved.m : saved.m[k].Expires >= cutoff}
        /\ \A k \in DOMAIN m : m[k] = saved.m[k]
        /\ \A k \in DOMAIN m : ~(m[k].Expires < cutoff)

\* a Load of a saved stream that kept an entry at the cutoff and dropped one below it
C1_Witness ==
    /\ last.op = "Load" /\ saved.ok
    /\ \E k \in DOMAIN saved.m : saved.m[k].Expires = cutoff /\ k \in DOMAIN m
    /\ \E k \in DOMAIN saved.m : saved.m[k].Expires < cutoff /\ k \notin DOMAIN m

\* C2: a Load whose deserialization fails, on an empty stream, on a corrupt one
\* or at any point of the stream, returns a cache with no entries.
C2_FailedLoadIsEmpty ==
    (last.op = "Load" /\ last.err # Nil) => DOMAIN m = {}

\* C3: in one cache instance, a Get on a key that was Set returns the value of
\* the last Set on that key and found, whatever the expires of that Set was.
C3_GetReturnsLastSet ==
    (last.op = "Get" /\ last.key \in DOMAIN lastSet) =>
        last.got = [v |-> lastSet[last.key].v, ok |-> TRUE]

\* a Get on a key that was Set twice, the last time with an expires below the
\* cutoff the instance was loaded with
C3_Witness ==
    /\ last.op = "Get" /\ last.key \in DOMAIN lastSet
    /\ lastSet[last.key].n = 2
    /\ lastSet[last.key].e < cutoff
    /\ last.got.ok

-----------------------------------------------------------------------------
(* fiatConv: claims, checked under Spec *)

Ran == code # NotRun
Parsed == Ran /\ parseArguments(args).err = Nil
Request == parseArguments(args).req
RequestKey == key(Request.from, Request.to)
Line(x) == Format2f(x) \o <<"\n">>

\* C4: a run whose arguments do not parse returns 1, writes something to the
\* error stream and nothing to the output stream, does not call the rate
\* provider, and makes no call on the file system and leaves the cache file as
\* it was.
C4_ParseFailureDoesNothingElse ==
    [][ (parseArguments(args').err # Nil) =>
            /\ code' = 1
            /\ stderr' # <<>>
            /\ stdout' = <<>>
            /\ calls' = 0 /\ ~conv'.called
            /\ fsOps' = <<>>
            /\ fs' = fs ]_vars

\* a run without arguments on a cache file that holds entries
C4_Witness ==
    /\ Ran /\ args = <<>> /\ code = 1
    /\ stderr = <<"too few arguments", "\n\n", Usage, "\n">>
    /\ fs.exists /\ Len(fs.data) > 1

\* C5: a run with a valid request whose key the loaded cache does not hold, and
\* whose provider returns a rate without error, calls the provider once, writes
\* rate * amount with two decimals and a newline as its whole output, writes
\* nothing to the error stream and returns 0.
C5_MissThenConverted ==
    (Parsed /\ ~found /\ conv.called /\ conv.err = Nil) =>
        /\ calls = 1
        /\ stdout = Line(FMul(conv.rate, Request.amount))
        /\ stderr = <<>>
        /\ code = 0

\* amount 5 from USD to AUD at rate 2 prints 10.00
C5_Witness ==
    /\ Parsed /\ ~found /\ conv.called /\ conv.err = Nil
    /\ Request = request(Float(FALSE, 500), USD, AUD)
    /\ conv.rate = Rate2
    /\ stdout = <<"1", "0", ".", "0", "0", "\n">>

\* the run that follows repeats the run before it: that run succeeded and left
\* its cache in the file, and this one has the same arguments and the same clock
\* reading and opens the file
RepeatsLastRun ==
    /\ code = 0 /\ Persisted(fs, fsOps)
    /\ args' = args /\ now' = now
    /\ fsOps' # <<>> /\ fsOps'[1] = "Open"

SameResultFromCache == calls' = 0 /\ ~conv'.called /\ stdout' = stdout /\ code' = 0

\* C6, as stated: a run that repeats the successful run before it does not call
\* the provider, writes the same output and returns 0.
C6_RepeatUsesCache == [][RepeatsLastRun => SameResultFromCache]_vars

\* C6, amended: so it is when the rate of the run before it was not zero.
C6_RepeatUsesCacheNonZero ==
    [][(RepeatsLastRun /\ ~FEq(rate, FZero)) => SameResultFromCache]_vars

\* a run served from the cache that the run before it filled
C6_Witness ==
    /\ again /\ ~FEq(rate, FZero)
    /\ calls = 0 /\ code = 0 /\ found
    /\ stdout = <<"1", "0", ".", "0", "0", "\n">>
    /\ Decode(fs.data, EmptyMap).err = Nil
    /\ RequestKey \in DOMAIN Decode(fs.data, EmptyMap).m
    /\ Decode(fs.data, EmptyMap).m[RequestKey] = item(now, FloatVal(Rate2))

\* C7: a run whose provider returns an error returns 1, writes nothing to the
\* output stream, and writes the error's message and a newline, and nothing
\* else, to the error stream.
C7_ProviderErrorReported ==
    (conv.called /\ conv.err # Nil) =>
        /\ code = 1
        /\ stdout = <<>>
        /\ stderr = conv.err[2] \o <<"\n">>

C7_Witness ==
    /\ conv.called /\ conv.err = Err(<<"simulated">>)
    /\ stderr = <<"simulated", "\n">>
    /\ calls = 1 /\ code = 1

\* C9: a run whose provider returns an error leaves the cache file as it was,
\* and neither creates nor writes it.
C9_ProviderErrorLeavesFile ==
    [][ (conv'.called /\ conv'.err # Nil) =>
            /\ fs' = fs
            /\ \A i \in DOMAIN fsOps' : fsOps'[i] \in {"Open", "OpenFailed"} ]_vars

\* a provider error in a run on a cache file that holds an entry for another key
C9_Witness ==
    /\ conv.called /\ conv.err # Nil
    /\ fs.exists
    /\ Decode(fs.data, EmptyMap).err = Nil
    /\ DOMAIN Decode(fs.data, EmptyMap).m # {}
    /\ RequestKey \notin DOMAIN Decode(fs.data, EmptyMap).m

HoldsEntry(file, k, it) ==
    /\ file.exists
    /\ Decode(file.data, EmptyMap).err = Nil
    /\ k \in DOMAIN Decode(file.data, EmptyMap).m
    /\ Decode(file.data, EmptyMap).m[k] = it

\* C10, as stated: after a run that missed the cache and whose provider returned
\* a rate, the cache file holds the entry of key (from, to), value rate and
\* expires now.
C10_FilledEntryInFile ==
    (Parsed /\ conv.called /\ conv.err = Nil) =>
        HoldsEntry(fs, RequestKey, item(now, FloatVal(conv.rate)))

\* C10, amended: so it is when the file is not the discard location and was
\* created and written without error.
C10_FilledEntryInFileWhenSaved ==
    (Parsed /\ conv.called /\ conv.err = Nil /\ Persisted(fs, fsOps)) =>
        HoldsEntry(fs, RequestKey, item(now, FloatVal(conv.rate)))

\* a filled entry in a file that holds an older entry too
C10_Witness ==
    /\ Parsed /\ conv.called /\ conv.err = Nil /\ Persisted(fs, fsOps)
    /\ now > 0
    /\ HoldsEntry(fs, RequestKey, item(now, FloatVal(Rate2)))
    /\ Cardinality(DOMAIN Decode(fs.data, EmptyMap).m) = 2

-----------------------------------------------------------------------------
(* parseArguments: claims, checked under SpecParse *)

Succeeds(a) ==
    /\ Len(a) >= 4
    /\ ParseFloat(a[2]).err = Nil
    /\ Len(a[3]) = 3
    /\ Len(a[4]) = 3

\* u is s with every lower-case letter replaced by its upper-case letter
IsUpperOf(u, s) ==
    /\ Len(u) = Len(s)
    /\ \A i \in DOMAIN s :
        IF \E j \in DOMAIN Lower : Lower[j] = s[i]
        THEN \E j \in DOMAIN Lower : Lower[j] = s[i] /\ Upper[j] = u[i]
        ELSE u[i] = s[i]

\* C8: parseArguments returns no error exactly when there are three arguments
\* or more after the program name, the first is a number and the second and the
\* third have three characters each; it then returns the number and the two
\* codes in upper case, and what follows the third argument changes nothing.
C8_ParseArguments ==
    pres.done =>
        /\ (pres.ret.err = Nil) <=> Succeeds(pargs)
        /\ Succeeds(pargs) =>
            /\ pres.ret.req.amount = ParseFloat(pargs[2]).val
            /\ IsUpperOf(pres.ret.req.from, pargs[3])
            /\ IsUpperOf(pres.ret.req.to, pargs[4])
            /\ pres.ret = parseArguments(SubSeq(pargs, 1, 4))
        /\ ~Succeeds(pargs) => pres.ret.req = NoRequest

\* mixed-case codes and an ignored fifth argument
C8_Witness ==
    /\ pres.done
    /\ pargs = <<Prog, <<"-", "5">>, <<"u", "s", "d">>, <<"A", "u", "D">>, <<"a", "1">>>>
    /\ pres.ret = [req |-> request(Float(TRUE, 500), USD, AUD), err |-> Nil]

-----------------------------------------------------------------------------
(* fiatConv: the lifetime of a cached rate, checked under Spec *)

\* the decoded map d holds under key k a float64 that is not zero
HoldsRate(d, k) ==
    /\ d.err = Nil
    /\ k \in DOMAIN d.m
    /\ d.m[k].Value.type = "float64"
    /\ ~FEq(d.m[k].Value.val, FZero)

\* what the stream of the file decodes to
Stored(file) == Decode(file.data, EmptyMap)

\* the run that follows opens the cache file
OpensTheFile == fsOps' # <<>> /\ fsOps'[1] = "Open"

\* C11: a rate that is not zero and was stored in the cache file at time t is
\* used by a run at time t2 that opens the file, without a call of the provider,
\* exactly when t >= t2 - cacheLifetime; when t < t2 - cacheLifetime the run does
\* not find the entry and calls the provider.
C11_ServedWithinLifetime ==
    [][ \A p \in {parseArguments(args')} : \A d \in {Stored(fs)} :
        \A k \in {key(p.req.from, p.req.to)} :
          (p.err = Nil /\ OpensTheFile /\ HoldsRate(d, k)) =>
            /\ (calls' = 0 /\ ~conv'.called /\ found')
                    <=> (d.m[k].Expires >= now' - cacheLifetime)
            /\ (d.m[k].Expires < now' - cacheLifetime)
                    => (~found' /\ conv'.called /\ calls' = 1) ]_vars

\* a run that used a rate stored exactly cacheLifetime before it
C11_Witness ==
    /\ Parsed /\ found /\ calls = 0 /\ code = 0
    /\ fsOps = <<"Open">>
    /\ fs.exists /\ HoldsRate(Stored(fs), RequestKey)
    /\ now > 0
    /\ Stored(fs).m[RequestKey].Expires = now - cacheLifetime

\* what the run that follows does after a miss, by what the provider returns
MissOutcome(p) ==
    /\ conv'.called /\ calls' = 1
    /\ conv'.err = Nil =>
            /\ code' = 0 /\ stderr' = <<>>
            /\ stdout' = Line(FMul(conv'.rate, p.req.amount))
            /\ \E i \in DOMAIN fsOps' : fsOps'[i] \in {"Create", "CreateFailed"}
    /\ conv'.err # Nil =>
            /\ code' = 1 /\ stdout' = <<>>
            /\ stderr' = conv'.err[2] \o <<"\n">>
            /\ fs' = fs

\* C12: a run that finds in the loaded cache, under its key, a rate of exactly
\* zero calls the provider and goes on as a run that does not find its key.
C12_ZeroRateIsMiss ==
    [][ \A p \in {parseArguments(args')} :
          p.err = Nil =>
            \A g \in {Get(loadCache(fs, Cutoff(now'), OpensTheFile),
                          key(p.req.from, p.req.to))} :
              /\ (g.ok /\ g.v.type = "float64" /\ FEq(g.v.val, FZero))
                    => (found' /\ MissOutcome(p))
              /\ ~g.ok => (~found' /\ MissOutcome(p)) ]_vars

\* a run that found a rate of zero under its key, called the provider and got
\* an error from it
C12_Witness ==
    /\ Parsed /\ found /\ conv.called /\ conv.err # Nil /\ code = 1
    /\ fsOps = <<"Open">>
    /\ Stored(fs).err = Nil
    /\ RequestKey \in DOMAIN Stored(fs).m
    /\ Stored(fs).m[RequestKey].Value = FloatVal(FZero)
    /\ Stored(fs).m[RequestKey].Expires >= now - cacheLifetime

\* C13: a run that does not call the provider has found, in the loaded cache, an
\* entry whose key has the run's source code as From and the run's target code
\* as To, and prints that entry's rate times the amount; a run whose loaded
\* cache holds no entry under that key misses and calls the provider, whether or
\* not the cache holds the entry of the opposite direction.
C13_KeyIsOrdered ==
    [][ \A p \in {parseArguments(args')} :
          p.err = Nil =>
            \A c \in {loadCache(fs, Cutoff(now'), OpensTheFile)} :
            \A k \in {[From |-> p.req.from, To |-> p.req.to]} :
              /\ calls' = 0 =>
                    /\ k \in DOMAIN c
                    /\ stdout' = Line(FMul(c[k].Value.val, p.req.amount))
              /\ k \notin DOMAIN c =>
                    (~found' /\ conv'.called /\ calls' = 1) ]_vars

\* a run that missed and filled the cache while the file held, unexpired, the
\* rate of the opposite direction, stored by an earlier run
C13_Witness ==
    /\ Parsed /\ ~found /\ conv.called /\ code = 0
    /\ fsOps = <<"Open", "Create", "Write">>
    /\ HoldsRate(Stored(fs), [From |-> Request.to, To |-> Request.from])
    /\ Stored(fs).m[[From |-> Request.to, To |-> Request.from]].Expires < now
    /\ Stored(fs).m[[From |-> Request.to, To |-> Request.from]].Expires
            >= now - cacheLifetime
    /\ HoldsRate(Stored(fs), [From |-> Request.from, To |-> Request.to])

\* the cache layer fails in the run that follows: the file does not open, or its
\* stream does not decode, or the file is not created, or the write fails
CacheLayerFails(d) ==
    \/ ~OpensTheFile
    \/ d.err # Nil
    \/ \E i \in DOMAIN fsOps' : fsOps'[i] \in {"CreateFailed", "WriteFailed"}

\* the exit code and the output are those of a run that starts from an empty
\* cache: the provider is called, and what it returns decides both
AsFromEmptyCache(p) ==
    /\ conv'.called /\ calls' = 1
    /\ conv'.err = Nil =>
            (code' = 0 /\ stdout' = Line(FMul(conv'.rate, p.req.amount)))
    /\ conv'.err # Nil => (code' = 1 /\ stdout' = <<>>)

\* C14: a run with a valid request in which the cache layer fails has the exit
\* code and the output of the same run from an empty cache on a working file.
C14_CacheFailuresChangeNothing ==
    [][ \A p \in {parseArguments(args')} : \A d \in {Stored(fs)} :
          (p.err = Nil /\ CacheLayerFails(d)) => AsFromEmptyCache(p) ]_vars

-----------------------------------------------------------------------------
(* fiatConv: the cache file after a run, checked under Spec *)

\* C18: a run that finds in the loaded cache, under its key, a rate that is not
\* zero does not call the provider, makes no call on the file system but the one
\* that opened the file, and leaves the file as it was, stream and all: the
\* entry it used keeps the expires it had.
C18_HitLeavesTheFile ==
    [][ \A p \in {parseArguments(args')} :
          p.err = Nil =>
            \A g \in {Get(loadCache(fs, Cutoff(now'), OpensTheFile),
                          key(p.req.from, p.req.to))} :
              (g.ok /\ g.v.type = "float64" /\ ~FEq(g.v.val, FZero)) =>
                /\ calls' = 0 /\ ~conv'.called
                /\ fsOps' = <<"Open">>
                /\ osStderr' = <<>>
                /\ fs' = fs ]_vars

\* a run that used a rate stored by an earlier run, at an earlier clock reading,
\* from a file that holds two entries
C18_Witness ==
    /\ Parsed /\ found /\ calls = 0 /\ code = 0
    /\ fsOps = <<"Open">>
    /\ HoldsRate(Stored(fs), RequestKey)
    /\ Stored(fs).m[RequestKey].Expires < now
    /\ Stored(fs).m[RequestKey].Expires > now - cacheLifetime
    /\ Cardinality(DOMAIN Stored(fs).m) = 2

\* C19: after a run that missed, got a rate for its key K from the provider and
\* created and wrote the cache file, the file decodes to the entry of K and to
\* the entries the file held before under other keys with an expires at or above
\* now - cacheLifetime, each with the value and the expires it had, and to no
\* entry under another key with an expires below now - cacheLifetime.
C19_MissRewritesTheFile ==
    [][ \A p \in {parseArguments(args')} :
          (p.err = Nil /\ conv'.called /\ conv'.err = Nil /\ code' = 0
                /\ Persisted(fs', fsOps')) =>
            \A k \in {key(p.req.from, p.req.to)} :
            \A before \in {IF OpensTheFile THEN Stored(fs).m ELSE EmptyMap} :
            \A after \in {Stored(fs')} :
              /\ after.err = Nil
              /\ k \in DOMAIN after.m
              /\ after.m[k] = item(now', FloatVal(conv'.rate))
              /\ DOMAIN after.m \subseteq DOMAIN before \cup {k}
              /\ \A x \in DOMAIN before \ {k} :
                    before[x].Expires >= now' - cacheLifetime
                        => (x \in DOMAIN after.m /\ after.m[x] = before[x])
              /\ \A x \in DOMAIN after.m \ {k} :
                    after.m[x].Expires >= now' - cacheLifetime ]_vars

-----------------------------------------------------------------------------
(* package cache: Get and Save, checked under SpecCache *)

\* C15: a Get, on a key the cache holds or on one it does not hold, leaves every
\* entry of the cache with the value and the expires it had, and leaves the
\* stream alone; on a key the cache does not hold it returns nil and not found,
\* and on a key it holds the value and found.
C15_GetChangesNothing ==
    [][ last'.op = "Get" =>
            /\ m' = m
            /\ buf' = buf
            /\ last'.err = Nil
            /\ last'.key \notin DOMAIN m =>
                    last'.got = [v |-> NilVal, ok |-> FALSE]
            /\ last'.key \in DOMAIN m =>
                    last'.got = [v |-> m[last'.key].Value, ok |-> TRUE] ]_vars

\* a Get of a key that is not in a cache that holds the other key, with an
\* expires below the cutoff the cache was loaded with
C15_Witness ==
    /\ last.op = "Get"
    /\ last.key \notin DOMAIN m
    /\ ~last.got.ok
    /\ \E k \in DOMAIN m : m[k].Expires < cutoff

\* C16: a Save writes every entry of the mapping, those with an expires below
\* the cutoff included, so that the stream decodes to the mapping, and leaves the
\* mapping as it was; a Set puts its entry into the mapping whatever its expires
\* and leaves every other entry as it was.
C16_SaveWritesEveryEntry ==
    [][ /\ last'.op = "Save" =>
            /\ m' = m
            /\ last'.err = Nil
            /\ Decode(buf', EmptyMap) = [m |-> m, err |-> Nil]
        /\ last'.op = "Set" =>
            /\ last'.key \in DOMAIN m'
            /\ m'[last'.key] = item(lastSet'[last'.key].e, lastSet'[last'.key].v)
            /\ DOMAIN m' = DOMAIN m \cup {last'.key}
            /\ \A k \in DOMAIN m \ {last'.key} : m'[k] = m[k] ]_vars

\* a Save of two entries, one of them with an expires below the cutoff the cache
\* was loaded with, both of them in the stream
C16_Witness ==
    /\ last.op = "Save" /\ last.err = Nil
    /\ Cardinality(DOMAIN m) = 2
    /\ \E k \in DOMAIN m : m[k].Expires < cutoff
    /\ Decode(buf, EmptyMap).m = m

-----------------------------------------------------------------------------
(* package exchange: claims, checked under SpecExchange *)

\* the client got a response to a request for a URL that could be made
GotResponse == xin.base # ":" /\ xin.got.ok

\* the body is JSON whose rates are an object of numbers, or absent, and whose
\* base is a string, or absent
ResponseDecodes ==
    /\ xin.got.body.valid
    /\ xin.got.body.rates.kind \in {"absent", "object"}
    /\ xin.got.body.base.kind \in {"absent", "string"}

GoodResponse ==
    /\ GotResponse
    /\ xin.got.status = 200
    /\ ResponseDecodes
    /\ xin.got.body.base.str = xin.from
    /\ xin.got.body.rates.kind = "object"
    /\ xin.to \in DOMAIN xin.got.body.rates.obj

\* C17: Convert returns no error exactly when it got a response of status 200
\* whose body decodes, has the requested source code as its base and the
\* requested target code among its rates, and the rate it returns is then the
\* one of the target code; in every other case it returns rate 0 and an error;
\* and when the status is not 200 and the body is JSON with a string of one
\* character or more as its error member, that string is the error's message.
C17_ConvertResult ==
    xout.done =>
        /\ (xout.ret.err = Nil) <=> GoodResponse
        /\ GoodResponse => xout.ret.rate = xin.got.body.rates.obj[xin.to]
        /\ ~GoodResponse => (xout.ret.rate = FZero /\ xout.ret.err # Nil)
        /\ ( /\ GotResponse
             /\ xin.got.status # 200
             /\ xin.got.body.valid
             /\ xin.got.body.error.kind = "string"
             /\ xin.got.body.error.str # <<>> )
                => xout.ret.err = Err(xin.got.body.error.str)

\* a response of status 404 with the body of a good response and an error member
C17_Witness ==
    /\ xout.done
    /\ xin.base = "https://example.com/"
    /\ xin.from = USD /\ xin.to = AUD
    /\ xin.got = Response(404, Body(JObject([c \in {AUD} |-> Rate2]), JString(USD),
                                    JString(FeelingBad)))
    /\ xout.ret = [rate |-> FZero, err |-> Err(FeelingBad)]

=============================================================================
